---- MODULE Spec2Model ----
(***************************************************************************)
(* devstats: the generic typed record store (file-backed and SQLite) and   *)
(* the interval anonymization service, modelled from                      *)
(* internal/storage/storage.go, internal/anon (Service) and               *)
(* internal/domain.                                                        *)
(*                                                                         *)
(* strings.ToLower and strings.Title are computed on the spelling of a     *)
(* name (a sequence of one-character strings), so that the mapping between *)
(* Go field names and column names is computed, not assumed.  A time.Time  *)
(* is the number of seconds since midnight; the zero time.Time is 0.       *)
(***************************************************************************)
EXTENDS Integers, Sequences, FiniteSets, TLC

VARIABLES
    backend,    \* "file" | "sqlite": which Store implementation is wired
    typeOf,     \* store id -> record type T of Store[T]
    mem,        \* store id -> FileStore.data (in-memory slice)
    disk,       \* store id -> file content: NoFile, Corrupt or a JSON array
    db,         \* store id -> SQLite table: NoTable or [cols, rows]
    mu,         \* store id -> RWMutex state [writer, readers]
    pc,         \* thread -> position inside Save / Get / FindBetween
    arg,        \* thread -> argument of the running call
    buf,        \* thread -> bytes marshalled by persist, not yet written
    ret,        \* thread -> value returned by the last read
    loaded,     \* store id -> records the current instance found at construction
    saved,      \* store id -> records whose Save returned nil on this instance
    failed,     \* store id -> number of Save calls that returned an error
    calls,      \* number of store calls started (bounded)
    overlapped, \* TRUE once a Save was called while another Save was running
    prior,      \* what Get returned on the previous instance, at re-construction
    svc,        \* the anonymizer Service and its running ProcessInterval call
    config,     \* the anon.Config given to NewService
    handle,     \* store id -> state of the store's sql.DB handle: "open" | "closed"
    sched,      \* main's scheduler: the clock, the ticker and the windows processed
    lastCall,   \* what the last constructor or call of the lifecycle model returned
    heap,       \* the backing arrays of FileStore.data and the slice header of data
    coll        \* the collectors, their channels and goroutines, and main's select loop

vars == <<backend, typeOf, mem, disk, db, mu, pc, arg, buf, ret, loaded, saved,
          failed, calls, overlapped, prior, svc, config, handle, sched, lastCall,
          heap, coll>>

goVars == <<heap, coll>>

lifeVars == <<config, handle, sched, lastCall, goVars>>

conf == <<backend, typeOf>>

-----------------------------------------------------------------------------
(* Bounds of the model *)

\* number of goroutines calling one store concurrently
NumThreads == 2
\* number of store calls started in one behaviour of SpecStore
MaxCalls == 3
\* number of records producers put in the source store
MaxSource == 3
\* number of ProcessInterval calls in one behaviour
MaxRuns == 2
\* last instant of the scheduler's clock
MaxClock == 5

-----------------------------------------------------------------------------
(* strings.ToLower, strings.Title *)

Lowercase == <<"a","b","c","d","e","f","g","h","i","j","k","l","m",
               "n","o","p","q","r","s","t","u","v","w","x","y","z">>

Uppercase == <<"A","B","C","D","E","F","G","H","I","J","K","L","M",
               "N","O","P","Q","R","S","T","U","V","W","X","Y","Z">>

Digits == {"0","1","2","3","4","5","6","7","8","9"}

Range(s) == {s[i] : i \in DOMAIN s}

toLowerRune(c) ==
    IF \E i \in DOMAIN Uppercase : Uppercase[i] = c
    THEN Lowercase[CHOOSE i \in DOMAIN Uppercase : Uppercase[i] = c]
    ELSE c

toUpperRune(c) ==
    IF \E i \in DOMAIN Lowercase : Lowercase[i] = c
    THEN Uppercase[CHOOSE i \in DOMAIN Lowercase : Lowercase[i] = c]
    ELSE c

\* strings.isSeparator: letters, digits and underscore do not separate words
isSeparator(c) == c \notin (Range(Lowercase) \cup Range(Uppercase) \cup Digits \cup {"_"})

ToLower(s) == [i \in 1..Len(s) |-> toLowerRune(s[i])]

\* strings.Title upper-cases the first letter of every word, nothing else
Title(s) ==
    [i \in 1..Len(s) |->
        IF i = 1 \/ isSeparator(s[i-1]) THEN toUpperRune(s[i]) ELSE s[i]]

\* the spelling of every field name and column name of the model
Spell ==
    [ Key             |-> <<"K","e","y">>,
      key             |-> <<"k","e","y">>,
      Timestamp       |-> <<"T","i","m","e","s","t","a","m","p">>,
      timestamp       |-> <<"t","i","m","e","s","t","a","m","p">>,
      KeypressesCount |-> <<"K","e","y","p","r","e","s","s","e","s","C","o","u","n","t">>,
      keypressescount |-> <<"k","e","y","p","r","e","s","s","e","s","c","o","u","n","t">>,
      Keypressescount |-> <<"K","e","y","p","r","e","s","s","e","s","c","o","u","n","t">>,
      Language        |-> <<"L","a","n","g","u","a","g","e">>,
      language        |-> <<"l","a","n","g","u","a","g","e">>,
      ChangesInSpan   |-> <<"C","h","a","n","g","e","s","I","n","S","p","a","n">>,
      changesinspan   |-> <<"c","h","a","n","g","e","s","i","n","s","p","a","n">>,
      Changesinspan   |-> <<"C","h","a","n","g","e","s","i","n","s","p","a","n">>,
      id              |-> <<"i","d">>,
      Id              |-> <<"I","d">> ]

\* the name with a given spelling
Word(chars) == CHOOSE w \in DOMAIN Spell : Spell[w] = chars

\* strings.ToLower(name) and strings.Title(name), name by name
LowerWord == [w \in DOMAIN Spell |-> Word(ToLower(Spell[w]))]

TitleWord == [w \in DOMAIN Spell |-> Word(Title(Spell[w]))]

-----------------------------------------------------------------------------
(* internal/domain: the record types *)

KeypressData == "KeypressData"
KeypressAnonymousStats == "KeypressAnonymousStats"
FileChangeData == "FileChangeData"
FileChangeAnonymousStats == "FileChangeAnonymousStats"

SourceTypes == {KeypressData, FileChangeData}
RecordTypes == {KeypressData, KeypressAnonymousStats, FileChangeData, FileChangeAnonymousStats}

\* the Go field names
N_Key == "Key"
N_Timestamp == "Timestamp"
N_KeypressesCount == "KeypressesCount"
N_Language == "Language"
N_ChangesInSpan == "ChangesInSpan"

\* one struct field: Go name, Go kind, `sql` tag, `json` tag
Field(n, k, s, j) == [name |-> n, kind |-> k, sql |-> s, json |-> j, exported |-> TRUE]

StructFields(T) ==
    CASE T = KeypressData ->
            << Field(N_Key, "string", "TEXT NOT NULL", "key"),
               Field(N_Timestamp, "time", "DATETIME NOT NULL", "timestamp") >>
      [] T = KeypressAnonymousStats ->
            << Field(N_Timestamp, "time", "DATETIME NOT NULL", "timestamp"),
               Field(N_KeypressesCount, "int64", "INTEGER NOT NULL", "keypresses_count") >>
      [] T = FileChangeData ->
            << Field(N_Language, "string", "TEXT NOT NULL", "language"),
               Field(N_Timestamp, "time", "DATETIME NOT NULL", "timestamp") >>
      [] T = FileChangeAnonymousStats ->
            << Field(N_Timestamp, "time", "DATETIME NOT NULL", "timestamp"),
               Field(N_Language, "string", "TEXT NOT NULL", "language"),
               Field(N_ChangesInSpan, "int64", "INTEGER NOT NULL", "changes_in_span") >>

FieldNames(T) == {StructFields(T)[i].name : i \in DOMAIN StructFields(T)}

\* the zero time.Time
ZeroTime == 0

\* the zero value of a Go kind (var data T)
ZeroValue(kind) ==
    CASE kind = "string" -> ""
      [] kind = "int64" -> 0
      [] kind = "time" -> ZeroTime

FieldOf(T, n) ==
    StructFields(T)[CHOOSE i \in DOMAIN StructFields(T) : StructFields(T)[i].name = n]

ZeroRecord(T) == [n \in FieldNames(T) |-> ZeroValue(FieldOf(T, n).kind)]

\* the field values the collectors of the service model draw from; the times
\* are 09:00:01, 09:03:00 and 09:11:00
SourceDomain == [times |-> {32401, 32580, 33060}, languages |-> {"go", "rust"},
                 keys |-> {"a"}, counts |-> {1, 2}]

\* the field values the callers of the single store draw from
StoreDomain == [times |-> {32400, 32580, 33000}, languages |-> {"go"}, keys |-> {"a"},
                counts |-> {2}]

ValuesOf(f, dom) ==
    CASE f.kind = "time" -> dom.times
      [] f.kind = "int64" -> dom.counts
      [] f.kind = "string" -> IF f.name = N_Language THEN dom.languages ELSE dom.keys

RECURSIVE BuildRecords(_, _, _)
BuildRecords(fs, i, dom) ==
    IF i > Len(fs) THEN {<<>>}
    ELSE {(fs[i].name :> v) @@ r :
            v \in ValuesOf(fs[i], dom), r \in BuildRecords(fs, i + 1, dom)}

\* every value of type T whose fields are drawn from the sets of dom
RecordsOf(T, dom) == BuildRecords(StructFields(T), 1, dom)

-----------------------------------------------------------------------------
(* storage: SQLiteStore[T] *)

\* a mapping that stores every untagged field as text
getSQLTypeAllText(kind) == "TEXT"

\* getSQLType(t): the switch on t.Kind(), then t.String() == "time.Time"
getSQLType(kind) ==
    CASE kind = "string" -> "TEXT"
      [] kind \in {"int", "int64"} -> "INTEGER"
      [] kind = "float64" -> "REAL"
      [] kind = "bool" -> "BOOLEAN"
      [] OTHER -> IF kind = "time" THEN "DATETIME" ELSE "TEXT"

\* a field loop that skips nothing
inferFieldsAll(fs) ==
    [columns |-> [i \in 1..Len(fs) |-> LowerWord[fs[i].name]],
     types   |-> [i \in 1..Len(fs) |->
                    IF fs[i].sql # "" THEN fs[i].sql ELSE getSQLType(fs[i].kind)],
     fields  |-> [i \in 1..Len(fs) |-> fs[i].name]]

\* the field loop of getFieldsAndTypes over the fields fs of a struct type:
\* unexported fields and fields tagged sql:"-" are skipped
inferFields(fs) ==
    LET pf == SelectSeq(fs, LAMBDA f : f.exported /\ f.sql # "-")
    IN  [columns |-> [i \in 1..Len(pf) |-> LowerWord[pf[i].name]],
         types   |-> [i \in 1..Len(pf) |->
                        IF pf[i].sql # "" THEN pf[i].sql ELSE getSQLType(pf[i].kind)],
         fields  |-> [i \in 1..Len(pf) |-> pf[i].name]]

getFieldsAndTypes(T) == inferFields(StructFields(T))

C_id == "id"
C_timestamp == "timestamp"

\* a database in which the table has not been created
NoTable == [exists |-> FALSE, cols |-> <<>>, rows |-> <<>>]

\* CREATE TABLE IF NOT EXISTS: id first, then the inferred columns
initTable(T, table) ==
    IF ~table.exists
    THEN [exists |-> TRUE, cols |-> <<C_id>> \o getFieldsAndTypes(T).columns, rows |-> <<>>]
    ELSE table

\* INSERT OR REPLACE keyed by timestamp: a row with the timestamp of the new
\* record is overwritten
sqliteUpsert(T, table, data) ==
    LET ft == getFieldsAndTypes(T)
        val(c) == data[ft.fields[CHOOSE i \in DOMAIN ft.columns : ft.columns[i] = c]]
        hit(row) == row[C_timestamp] = val(C_timestamp)
    IN  IF \E i \in DOMAIN table.rows : hit(table.rows[i])
        THEN [table EXCEPT !.rows =
                [i \in DOMAIN table.rows |->
                    IF hit(table.rows[i])
                    THEN [c \in DOMAIN table.rows[i] |->
                            IF c = C_id THEN table.rows[i][c] ELSE val(c)]
                    ELSE table.rows[i]]]
        ELSE [table EXCEPT !.rows =
                Append(@, [c \in Range(table.cols) |->
                              IF c = C_id THEN Len(table.rows) + 1 ELSE val(c)])]

\* INSERT INTO table (columns) VALUES (?, ...): one row, id auto-incremented
sqliteInsert(T, table, data) ==
    LET ft == getFieldsAndTypes(T)
        row == [c \in Range(table.cols) |->
                  IF c = C_id THEN Len(table.rows) + 1
                  ELSE IF c \in Range(ft.columns)
                       THEN data[ft.fields[CHOOSE i \in DOMAIN ft.columns : ft.columns[i] = c]]
                       ELSE "NULL"]
    IN  [table EXCEPT !.rows = Append(@, row)]

\* a row loop that gives up the row, leaving the record zero, when a column
\* matches no field
scanRowStrict(T, cols, row) ==
    IF \A i \in 2..Len(cols) : TitleWord[cols[i]] \in FieldNames(T)
    THEN [n \in FieldNames(T) |->
            IF \E i \in 2..Len(cols) : TitleWord[cols[i]] = n
            THEN row[cols[CHOOSE i \in 2..Len(cols) : TitleWord[cols[i]] = n]]
            ELSE ZeroRecord(T)[n]]
    ELSE ZeroRecord(T)

\* the row loop of Get and FindBetween: skip the id column, find each field by
\* strings.Title(column), set it when the field exists
scanRow(T, cols, row) ==
    [n \in FieldNames(T) |->
        IF \E i \in 2..Len(cols) : TitleWord[cols[i]] = n
        THEN row[cols[CHOOSE i \in 2..Len(cols) : TitleWord[cols[i]] = n]]
        ELSE ZeroRecord(T)[n]]

sqliteGet(T, table) ==
    [i \in 1..Len(table.rows) |-> scanRow(T, table.cols, table.rows[i])]

\* SELECT * FROM table WHERE timestamp BETWEEN start AND end
sqliteFindBetween(T, table, start, end) ==
    LET hit == SelectSeq(table.rows,
                         LAMBDA row : start <= row[C_timestamp] /\ row[C_timestamp] <= end)
    IN  [i \in 1..Len(hit) |-> scanRow(T, table.cols, hit[i])]

-----------------------------------------------------------------------------
(* storage: FileStore[T] *)

\* os.Stat reports that the file does not exist
NoFile == [state |-> "absent", bytes |-> <<>>]
\* a file json.Unmarshal rejects (a write that failed after truncating it)
Corrupt == [state |-> "corrupt", bytes |-> <<>>]
\* a file holding a JSON array
JsonFile(bytes) == [state |-> "json", bytes |-> bytes]

JsonKeys(T) == {StructFields(T)[i].json : i \in DOMAIN StructFields(T)}

\* json.MarshalIndent(fs.data): one object per record, keyed by the json tags
Marshal(T, data) ==
    [i \in 1..Len(data) |->
        [k \in JsonKeys(T) |->
            data[i][StructFields(T)[CHOOSE j \in DOMAIN StructFields(T) :
                                        StructFields(T)[j].json = k].name]]]

\* json.Unmarshal(bytes, &fs.data): a field takes the value of the key equal to its tag
Unmarshal(T, bytes) ==
    [i \in 1..Len(bytes) |->
        [n \in FieldNames(T) |->
            IF FieldOf(T, n).json \in DOMAIN bytes[i]
            THEN bytes[i][FieldOf(T, n).json]
            ELSE ZeroRecord(T)[n]]]

\* a file holding a JSON array that os.ReadFile cannot read (permissions)
Unreadable(bytes) == [state |-> "unreadable", bytes |-> bytes]

\* a constructor that starts empty whatever the file holds
NewFileStoreEmpty(T, file) == [err |-> FALSE, data |-> <<>>, file |-> file]

\* a constructor that replaces a file it cannot read or decode by an empty one
NewFileStoreResetting(T, file) ==
    IF file.state \in {"unreadable", "corrupt"}
    THEN [err |-> FALSE, data |-> <<>>, file |-> JsonFile(<<>>)]
    ELSE [err |-> FALSE,
          data |-> IF file.state = "absent" THEN <<>> ELSE Unmarshal(T, file.bytes),
          file |-> file]

\* NewFileStore(filepath): os.Stat, os.ReadFile, json.Unmarshal; the error, the
\* data of the new store, and the file as the call leaves it
NewFileStore(T, file) ==
    IF file.state = "absent" THEN [err |-> FALSE, data |-> <<>>, file |-> file]
    ELSE IF file.state = "unreadable" THEN [err |-> TRUE, data |-> <<>>, file |-> file]
    ELSE IF file.state = "corrupt" THEN [err |-> TRUE, data |-> <<>>, file |-> file]
    ELSE [err |-> FALSE, data |-> Unmarshal(T, file.bytes), file |-> file]

\* a store keyed by timestamp and language: a record replaces the one it matches
fileUpsert(data, rec) ==
    LET same(r) == \A n \in DOMAIN rec \ {N_KeypressesCount, N_ChangesInSpan} : r[n] = rec[n]
    IN  IF \E i \in DOMAIN data : same(data[i])
        THEN [i \in DOMAIN data |-> IF same(data[i]) THEN rec ELSE data[i]]
        ELSE Append(data, rec)

\* the record put in front instead of at the end
filePrepend(data, rec) == <<rec>> \o data

\* fs.data = append(fs.data, data)
fileAppend(data, rec) == Append(data, rec)

\* return fs.data, nil
fileGet(data) == data

\* a range test with no upper end
withinRangeFromStart(timestamp, startTime, endTime) ==
    timestamp = startTime \/ timestamp > startTime

\* a range test that leaves the boundaries out
withinRangeExclusive(timestamp, startTime, endTime) ==
    timestamp > startTime /\ timestamp < endTime

\* (timestamp.Equal(startTime) || timestamp.After(startTime)) &&
\* (timestamp.Equal(endTime) || timestamp.Before(endTime))
withinRange(timestamp, startTime, endTime) ==
    /\ (timestamp = startTime \/ timestamp > startTime)
    /\ (timestamp = endTime \/ timestamp < endTime)

RECURSIVE fileScan(_, _, _, _)
fileScan(data, i, startTime, endTime) ==
    IF i > Len(data) THEN <<>>
    ELSE (IF withinRange(data[i][N_Timestamp], startTime, endTime)
          THEN <<data[i]>> ELSE <<>>) \o fileScan(data, i + 1, startTime, endTime)

fileFindBetween(data, start, end) == fileScan(data, 1, start, end)

-----------------------------------------------------------------------------
(* One store instance called by several goroutines: SpecStore *)

StoreIds == {"source", "target"}

\* anon.Config{IntervalSize: 10 * time.Minute}, in seconds
MainConfig == [IntervalSize |-> 600]

\* main's scheduler is not part of the behaviour
NoSched == [phase |-> "none"]

\* nothing has been called yet in the lifecycle model
NoCall == [op |-> "none"]

\* the backing arrays of the slices are not part of the behaviour
NoHeap == [arrays |-> <<>>, data |-> [arr |-> 0, len |-> 0, cap |-> 0]]

\* the collectors are not part of the behaviour
NoColl == [phase |-> "none"]

\* the store the goroutines of SpecStore call
Sut == "source"

Threads == 1..NumThreads

Unlocked == [writer |-> 0, readers |-> {}]

\* a Lock that does not wait for the holders of the mutex
CanLockNoWait(m) == TRUE

\* sync.RWMutex.Lock returns only when nobody holds the mutex
CanLock(m) == m.writer = 0 /\ m.readers = {}

\* an RLock that does not wait for the writer
CanRLockNoWait(m) == TRUE

\* sync.RWMutex.RLock returns only when no writer holds the mutex
CanRLock(m) == m.writer = 0

NoArg == [kind |-> "none"]

Idle(t) == pc[t] = "idle"

\* what Get returns on the current instance of store s
GetOf(s) ==
    IF backend = "file" THEN fileGet(mem[s]) ELSE sqliteGet(typeOf[s], db[s])

\* what FindBetween(start, end) returns on the current instance of store s
FindBetweenOf(s, start, end) ==
    IF backend = "file"
    THEN fileFindBetween(mem[s], start, end)
    ELSE sqliteFindBetween(typeOf[s], db[s], start, end)

InSave(t) == pc[t] \in {"save_wait", "save_locked", "persist_marshal", "persist_write",
                        "save_unlock"}

\* the records a table holds, column by column
rowRecord(T, row) == [n \in FieldNames(T) |-> row[LowerWord[n]]]

TableRecords(s) ==
    [i \in 1..Len(db[s].rows) |-> rowRecord(typeOf[s], db[s].rows[i])]

InitStore ==
    /\ backend \in {"file", "sqlite"}
    /\ \E T \in RecordTypes : typeOf = [s \in StoreIds |-> T]
    /\ mem = [s \in StoreIds |-> <<>>]
    /\ disk = [s \in StoreIds |-> NoFile]
    /\ db = [s \in StoreIds |->
                IF backend = "sqlite" /\ s = Sut THEN initTable(typeOf[s], NoTable) ELSE NoTable]
    /\ mu = Unlocked
    /\ pc = [t \in Threads |-> "idle"]
    /\ arg = [t \in Threads |-> NoArg]
    /\ buf = [t \in Threads |-> <<>>]
    /\ ret = [t \in Threads |-> <<>>]
    /\ loaded = [s \in StoreIds |-> <<>>]
    /\ saved = [s \in StoreIds |-> <<>>]
    /\ failed = [s \in StoreIds |-> 0]
    /\ calls = 0
    /\ overlapped = FALSE
    /\ prior = [valid |-> FALSE, got |-> <<>>]
    /\ svc = [pc |-> "none"]
    /\ config = MainConfig
    /\ handle = [s \in StoreIds |-> "open"]
    /\ sched = NoSched
    /\ lastCall = NoCall
    /\ heap = NoHeap
    /\ coll = NoColl

\* a goroutine calls Save(data) and reaches fs.mu.Lock() / s.mu.Lock()
SaveCall(t) ==
    /\ Idle(t)
    /\ calls < MaxCalls
    /\ \E rec \in RecordsOf(typeOf[Sut], StoreDomain) :
          arg' = [arg EXCEPT ![t] = [kind |-> "rec", rec |-> rec]]
    /\ pc' = [pc EXCEPT ![t] = "save_wait"]
    /\ calls' = calls + 1
    /\ overlapped' = (overlapped \/ \E u \in Threads \ {t} : InSave(u))
    /\ prior' = [valid |-> FALSE, got |-> <<>>]
    /\ UNCHANGED <<conf, lifeVars, mem, disk, db, mu, buf, ret, loaded, saved, failed, svc>>

\* fs.mu.Lock() / s.mu.Lock() returns
SaveLock(t) ==
    /\ pc[t] = "save_wait"
    /\ CanLock(mu)
    /\ mu' = [mu EXCEPT !.writer = t]
    /\ pc' = [pc EXCEPT ![t] = "save_locked"]
    /\ UNCHANGED <<conf, lifeVars, mem, disk, db, arg, buf, ret, loaded, saved, failed, calls,
                   overlapped, prior, svc>>

\* FileStore.Save: fs.data = append(fs.data, data)
FileSaveAppend(t) ==
    /\ backend = "file"
    /\ pc[t] = "save_locked"
    /\ mem' = [mem EXCEPT ![Sut] = fileAppend(@, arg[t].rec)]
    /\ pc' = [pc EXCEPT ![t] = "persist_marshal"]
    /\ UNCHANGED <<conf, lifeVars, disk, db, mu, arg, buf, ret, loaded, saved, failed, calls,
                   overlapped, prior, svc>>

\* FileStore.persist: data, err := json.MarshalIndent(fs.data, "", "  ")
PersistMarshal(t) ==
    /\ pc[t] = "persist_marshal"
    /\ buf' = [buf EXCEPT ![t] = Marshal(typeOf[Sut], mem[Sut])]
    /\ pc' = [pc EXCEPT ![t] = "persist_write"]
    /\ UNCHANGED <<conf, lifeVars, mem, disk, db, mu, arg, ret, loaded, saved, failed, calls,
                   overlapped, prior, svc>>

\* os.WriteFile(fs.filepath, data, 0644): it writes the file, or fails before
\* opening it (file as it was), or fails after truncating it
WriteFile(file, bytes, outcome) ==
    CASE outcome = "ok" -> JsonFile(bytes)
      [] outcome = "open_fails" -> file
      [] outcome = "write_fails" -> Corrupt

WriteOutcomes == {"ok", "open_fails", "write_fails"}

\* FileStore.persist: return os.WriteFile(...), which is what Save returns
PersistWrite(t) ==
    /\ pc[t] = "persist_write"
    /\ \E outcome \in WriteOutcomes :
          /\ disk' = [disk EXCEPT ![Sut] = WriteFile(@, buf[t], outcome)]
          /\ IF outcome = "ok"
             THEN saved' = [saved EXCEPT ![Sut] = Append(@, arg[t].rec)] /\ failed' = failed
             ELSE failed' = [failed EXCEPT ![Sut] = @ + 1] /\ saved' = saved
    /\ buf' = [buf EXCEPT ![t] = <<>>]
    /\ pc' = [pc EXCEPT ![t] = "save_unlock"]
    /\ UNCHANGED <<conf, lifeVars, mem, db, mu, arg, ret, loaded, calls, overlapped, prior, svc>>

\* SQLiteStore.Save: s.db.Exec(query, values...) inserts the row or fails
SqliteSaveExec(t) ==
    /\ backend = "sqlite"
    /\ pc[t] = "save_locked"
    /\ \E ok \in BOOLEAN :
          IF ok
          THEN /\ db' = [db EXCEPT ![Sut] = sqliteInsert(typeOf[Sut], @, arg[t].rec)]
               /\ saved' = [saved EXCEPT ![Sut] = Append(@, arg[t].rec)]
               /\ failed' = failed
          ELSE /\ failed' = [failed EXCEPT ![Sut] = @ + 1]
               /\ UNCHANGED <<db, saved>>
    /\ pc' = [pc EXCEPT ![t] = "save_unlock"]
    /\ UNCHANGED <<conf, lifeVars, mem, disk, mu, arg, buf, ret, loaded, calls, overlapped, prior, svc>>

\* defer fs.mu.Unlock() / s.mu.Unlock(): Save returns
SaveUnlock(t) ==
    /\ pc[t] = "save_unlock"
    /\ mu' = [mu EXCEPT !.writer = 0]
    /\ pc' = [pc EXCEPT ![t] = "idle"]
    /\ arg' = [arg EXCEPT ![t] = NoArg]
    /\ UNCHANGED <<conf, lifeVars, mem, disk, db, buf, ret, loaded, saved, failed, calls,
                   overlapped, prior, svc>>

\* Get(): RLock, then return fs.data / the rows of SELECT * scanned into []T
Get(t) ==
    /\ Idle(t)
    /\ calls < MaxCalls
    /\ CanRLock(mu)
    /\ mu' = [mu EXCEPT !.readers = @ \cup {t}]
    /\ arg' = [arg EXCEPT ![t] = [kind |-> "get"]]
    /\ ret' = [ret EXCEPT ![t] = GetOf(Sut)]
    /\ pc' = [pc EXCEPT ![t] = "read_unlock"]
    /\ calls' = calls + 1
    /\ UNCHANGED <<conf, lifeVars, mem, disk, db, buf, loaded, saved, failed, overlapped, prior, svc>>

\* FindBetween(start, end): RLock, then the scan of fs.data / the rows of the
\* BETWEEN query scanned into []any
FindBetween(t) ==
    /\ Idle(t)
    /\ calls < MaxCalls
    /\ CanRLock(mu)
    /\ \E a \in StoreDomain.times, b \in StoreDomain.times :
          /\ arg' = [arg EXCEPT ![t] = [kind |-> "find", start |-> a, end |-> b]]
          /\ ret' = [ret EXCEPT ![t] = FindBetweenOf(Sut, a, b)]
    /\ mu' = [mu EXCEPT !.readers = @ \cup {t}]
    /\ pc' = [pc EXCEPT ![t] = "read_unlock"]
    /\ calls' = calls + 1
    /\ UNCHANGED <<conf, lifeVars, mem, disk, db, buf, loaded, saved, failed, overlapped, prior, svc>>

\* defer fs.mu.RUnlock() / s.mu.RUnlock(): the read returns
ReadUnlock(t) ==
    /\ pc[t] = "read_unlock"
    /\ mu' = [mu EXCEPT !.readers = @ \ {t}]
    /\ pc' = [pc EXCEPT ![t] = "idle"]
    /\ arg' = [arg EXCEPT ![t] = NoArg]
    /\ ret' = [ret EXCEPT ![t] = <<>>]
    /\ UNCHANGED <<conf, lifeVars, mem, disk, db, buf, loaded, saved, failed, calls, overlapped,
                   prior, svc>>

\* NewFileStore(filepath) on the file of the store, while no call is running:
\* a fresh instance whose data is what the file decodes to
ReopenFile ==
    /\ backend = "file"
    /\ \A t \in Threads : Idle(t)
    /\ LET r == NewFileStore(typeOf[Sut], disk[Sut])
       IN  /\ ~r.err
           /\ prior' = [valid |-> failed[Sut] = 0, got |-> GetOf(Sut)]
           /\ mem' = [mem EXCEPT ![Sut] = r.data]
           /\ loaded' = [loaded EXCEPT ![Sut] = r.data]
    /\ saved' = [saved EXCEPT ![Sut] = <<>>]
    /\ failed' = [failed EXCEPT ![Sut] = 0]
    /\ UNCHANGED <<conf, lifeVars, disk, db, mu, pc, arg, buf, ret, calls, overlapped, svc>>

\* NewSQLiteStore(dbPath) on the database of the store, while no call is running
ReopenSqlite ==
    /\ backend = "sqlite"
    /\ \A t \in Threads : Idle(t)
    /\ prior' = [valid |-> failed[Sut] = 0, got |-> GetOf(Sut)]
    /\ db' = [db EXCEPT ![Sut] = initTable(typeOf[Sut], @)]
    /\ loaded' = [loaded EXCEPT ![Sut] = TableRecords(Sut)]
    /\ saved' = [saved EXCEPT ![Sut] = <<>>]
    /\ failed' = [failed EXCEPT ![Sut] = 0]
    /\ UNCHANGED <<conf, lifeVars, mem, disk, mu, pc, arg, buf, ret, calls, overlapped, svc>>

NextStore ==
    \/ \E t \in Threads : SaveCall(t)
    \/ \E t \in Threads : SaveLock(t)
    \/ \E t \in Threads : FileSaveAppend(t)
    \/ \E t \in Threads : PersistMarshal(t)
    \/ \E t \in Threads : PersistWrite(t)
    \/ \E t \in Threads : SqliteSaveExec(t)
    \/ \E t \in Threads : SaveUnlock(t)
    \/ \E t \in Threads : Get(t)
    \/ \E t \in Threads : FindBetween(t)
    \/ \E t \in Threads : ReadUnlock(t)
    \/ ReopenFile
    \/ ReopenSqlite

SpecStore == InitStore /\ [][NextStore]_vars

-----------------------------------------------------------------------------
(* Properties of one store instance *)

AllIdle == \A t \in Threads : Idle(t)

Count(x, seq) == Cardinality({i \in DOMAIN seq : seq[i] = x})

\* the same records, each the same number of times
SameBag(s1, s2) ==
    /\ Len(s1) = Len(s2)
    /\ \A x \in Range(s1) \cup Range(s2) : Count(x, s1) = Count(x, s2)

\* the records the store holds: FileStore.data, or the rows of the table
HeldOf(s) == IF backend = "file" THEN mem[s] ELSE TableRecords(s)

\* the records the current instance should hold: found at construction, then saved
ExpectedOf(s) == loaded[s] \o saved[s]

\* every field name of T is the Title of its column name
TitleFindsFields(T) == \A n \in FieldNames(T) : TitleWord[LowerWord[n]] = n

InRange(r, a, b) == a <= r[N_Timestamp] /\ r[N_Timestamp] <= b

\* C1: once every concurrent Save call on one store instance has returned
\* successfully, the store holds exactly the saved records, none lost and none
\* duplicated, in memory and in the file or table.
C1_ConcurrentSavesKeepAll ==
    (AllIdle /\ failed[Sut] = 0) =>
        /\ SameBag(HeldOf(Sut), ExpectedOf(Sut))
        /\ (backend = "file" /\ saved[Sut] # <<>>) =>
              /\ disk[Sut].state = "json"
              /\ SameBag(Unmarshal(typeOf[Sut], disk[Sut].bytes), ExpectedOf(Sut))

C1_Witness ==
    /\ AllIdle
    /\ failed[Sut] = 0
    /\ overlapped
    /\ Len(saved[Sut]) >= 2

\* C3: FindBetween(a, b) returns a record of the store if and only if its
\* timestamp t satisfies a <= t <= b, both boundaries included, for the file
\* store and the SQLite store.
C3_FindBetweenInclusive ==
    \A t \in Threads :
        (pc[t] = "read_unlock" /\ arg[t].kind = "find") =>
            LET want == SelectSeq(HeldOf(Sut),
                                  LAMBDA r : InRange(r, arg[t].start, arg[t].end))
            IN  /\ Len(ret[t]) = Len(want)
                /\ \A i \in DOMAIN want : ret[t][i][N_Timestamp] = want[i][N_Timestamp]
                /\ (backend = "file" \/ TitleFindsFields(typeOf[Sut])) => ret[t] = want

C3_Witness ==
    \E t \in Threads :
        /\ pc[t] = "read_unlock"
        /\ arg[t].kind = "find"
        /\ arg[t].start < arg[t].end
        /\ Len(HeldOf(Sut)) = 2
        /\ Len(ret[t]) = 1
        /\ ret[t][1][N_Timestamp] = arg[t].end
        /\ \E i \in DOMAIN HeldOf(Sut) : HeldOf(Sut)[i][N_Timestamp] < arg[t].start

\* C4: for the file store, after any sequence of successful Save calls, Get
\* returns exactly the saved records, field for field, in the order saved.
C4_FileGetInSaveOrder ==
    \A t \in Threads :
        (backend = "file" /\ pc[t] = "read_unlock" /\ arg[t].kind = "get"
            /\ failed[Sut] = 0) =>
            ret[t] = ExpectedOf(Sut)

C4_Witness ==
    \E t \in Threads :
        /\ backend = "file"
        /\ pc[t] = "read_unlock"
        /\ arg[t].kind = "get"
        /\ failed[Sut] = 0
        /\ Len(saved[Sut]) = 2
        /\ ret[t] = saved[Sut]
        /\ ret[t][1] # ret[t][2]

\* C5: for the SQLite store and any record type, Get after successful Save
\* calls returns exactly the saved records with every persisted field equal to
\* the value saved.
C5_SqliteGetReturnsSaved ==
    \A t \in Threads :
        (backend = "sqlite" /\ pc[t] = "read_unlock" /\ arg[t].kind = "get"
            /\ failed[Sut] = 0) =>
            SameBag(ret[t], ExpectedOf(Sut))

\* the goroutine is inside Save, between Lock and Unlock
HoldsSave(t) == pc[t] \in {"save_locked", "persist_marshal", "persist_write", "save_unlock"}

\* the goroutine is inside Get or FindBetween, between RLock and RUnlock
HoldsRead(t) == pc[t] = "read_unlock"

\* C11: while a goroutine is inside Save (between Lock and Unlock) no other
\* goroutine is inside Save, Get or FindBetween on that store, so what a read
\* returns is the collection with whole Saves applied: for the file store the
\* slice every started Save has finished with.
C11_SaveIsExclusive ==
    \A t \in Threads :
        /\ HoldsSave(t) =>
              /\ mu.writer = t
              /\ mu.readers = {}
              /\ \A u \in Threads \ {t} : ~HoldsSave(u) /\ ~HoldsRead(u)
        /\ HoldsRead(t) =>
              /\ t \in mu.readers
              /\ mu.writer = 0
              /\ backend = "file" => Len(mem[Sut]) = Len(loaded[Sut]) + Len(saved[Sut]) + failed[Sut]

\* a Save is half-way (appended in memory, not yet written) and the other
\* goroutine's Save waits for the lock
C11_Witness ==
    \E t, u \in Threads :
        /\ pc[t] = "persist_write"
        /\ pc[u] = "save_wait"
        /\ Len(mem[Sut]) > Len(saved[Sut]) + Len(loaded[Sut]) + failed[Sut]

\* the columns of the table of store s, id aside, that strings.Title turns
\* into the name of a field of T, and those it does not
MatchingColumns(s) ==
    {c \in Range(db[s].cols) \ {C_id} : TitleWord[c] \in FieldNames(typeOf[s])}

StrayColumns(s) == (Range(db[s].cols) \ {C_id}) \ MatchingColumns(s)

\* C20: a Get or FindBetween on the SQLite store returns one record per row
\* read, whether or not some column matches no field of the record type; in
\* each record every field named by a column holds the value stored in that
\* column, and the other fields hold their zero value.
C20_StrayColumnIgnored ==
    \A t \in Threads :
        (backend = "sqlite" /\ pc[t] = "read_unlock") =>
            LET rows == IF arg[t].kind = "get" THEN db[Sut].rows
                        ELSE SelectSeq(db[Sut].rows,
                                       LAMBDA row : /\ arg[t].start <= row[C_timestamp]
                                                    /\ row[C_timestamp] <= arg[t].end)
                names == FieldNames(typeOf[Sut])
                fieldOf == [c \in MatchingColumns(Sut) |-> TitleWord[c]]
                unnamed == names \ {fieldOf[c] : c \in DOMAIN fieldOf}
                zero == ZeroRecord(typeOf[Sut])
            IN  /\ Len(ret[t]) = Len(rows)
                /\ \A i \in DOMAIN rows :
                      /\ DOMAIN ret[t][i] = names
                      /\ \A c \in DOMAIN fieldOf : ret[t][i][fieldOf[c]] = rows[i][c]
                      /\ \A n \in unnamed : ret[t][i][n] = zero[n]

\* a Get on a table with a column that matches no field has returned the
\* row's record with its stored timestamp
C20_Witness ==
    \E t \in Threads :
        /\ backend = "sqlite"
        /\ pc[t] = "read_unlock"
        /\ arg[t].kind = "get"
        /\ StrayColumns(Sut) # {}
        /\ Len(ret[t]) = 1
        /\ ret[t][1][N_Timestamp] = db[Sut].rows[1][C_timestamp]
        /\ ret[t][1][N_Timestamp] # ZeroTime

\* C8: a fresh store instance constructed on the file or table of an instance
\* that saved N records returns the same N records from Get; construction loads
\* what is there and overwrites nothing.
C8_ReopenKeepsRecords ==
    prior.valid =>
        /\ GetOf(Sut) = prior.got
        /\ Len(GetOf(Sut)) = Len(HeldOf(Sut))
        /\ (backend = "file" \/ TitleFindsFields(typeOf[Sut])) => GetOf(Sut) = HeldOf(Sut)
        /\ backend = "file" =>
              /\ disk[Sut].state = "json" => Unmarshal(typeOf[Sut], disk[Sut].bytes) = prior.got
              /\ disk[Sut].state = "absent" => prior.got = <<>>

C8_Witness ==
    /\ prior.valid
    /\ Len(prior.got) = 2
    /\ Len(GetOf(Sut)) = 2
    /\ Len(loaded[Sut]) = 2

-----------------------------------------------------------------------------
(* internal/domain: Anonymize *)

\* a reduction that stamps the aggregate with the first record's own time
keypressAnonymizeStampFirst(records, intervalStart) ==
    { << (N_Timestamp :> records[1][N_Timestamp]) @@ (N_KeypressesCount :> Len(records)) >> }

\* KeypressData.Anonymize: one aggregate, the number of records, stamped with
\* intervalStart
keypressAnonymize(records, intervalStart) ==
    { << (N_Timestamp :> intervalStart) @@ (N_KeypressesCount :> Len(records)) >> }

\* the orders in which a Go map over the set S may be ranged
Orders(S) ==
    {f \in [1..Cardinality(S) -> S] : \A i, j \in DOMAIN f : f[i] = f[j] => i = j}

\* a reduction that does not group: one aggregate of count 1 per record
fileChangeAnonymizeUngrouped(records, intervalStart) ==
    { [i \in DOMAIN records |->
          (N_Timestamp :> intervalStart) @@ (N_Language :> records[i][N_Language])
             @@ (N_ChangesInSpan :> 1)] }

\* FileChangeData.Anonymize: one aggregate per language found, in map order
fileChangeAnonymize(records, intervalStart) ==
    LET languageCounts ==
            [lang \in {records[i][N_Language] : i \in DOMAIN records} |->
                Cardinality({i \in DOMAIN records : records[i][N_Language] = lang})]
    IN  { [i \in DOMAIN order |->
             (N_Timestamp :> intervalStart) @@ (N_Language :> order[i])
                @@ (N_ChangesInSpan :> languageCounts[order[i]])] :
          order \in Orders(DOMAIN languageCounts) }

\* sample.Anonymize(records, start): the slices the call may return
Anonymize(S, records, intervalStart) ==
    IF S = KeypressData
    THEN keypressAnonymize(records, intervalStart)
    ELSE fileChangeAnonymize(records, intervalStart)

\* the target type T of Service[S, T]
TargetType(S) ==
    IF S = KeypressData THEN KeypressAnonymousStats ELSE FileChangeAnonymousStats

-----------------------------------------------------------------------------
(* internal/anon: Service.ProcessInterval between two stores: Spec *)

Source == "source"
Target == "target"

\* a check that never takes the early return
NoRecordsNever(records) == FALSE

\* if len(records) == 0 { return nil }
NoRecords(records) == Len(records) = 0

\* a loop that logs nothing and goes on to the next record after a failed Save
onSaveErrorContinue(run) == [run EXCEPT !.i = @ + 1, !.tfail = @ + 1]

\* if err := s.targetStore.Save(record); err != nil { return fmt.Errorf(...) }
onSaveError(run) == [run EXCEPT !.pc = "returned", !.result = "err_save", !.tfail = @ + 1]

\* a fetch whose error is dropped: the call goes on as if nothing was found
onFetchErrorSwallowed(run) == [run EXCEPT !.pc = "returned", !.result = "ok", !.qfail = @ + 1]

\* records, err := s.sourceStore.FindBetween(start, end)
\* if err != nil { return fmt.Errorf("failed to fetch records: %w", err) }
onFetchError(run) == [run EXCEPT !.pc = "returned", !.result = "err_fetch", !.qfail = @ + 1]

\* the interval the scheduler asks for: 09:00:00-09:10:00
Intervals == {<<32400, 33000>>}

\* a constructor that takes any interval size
NewServiceUnchecked(sourceStore, targetStore, cfg) ==
    [err |-> FALSE,
     service |-> [sourceStore |-> sourceStore, targetStore |-> targetStore, config |-> cfg]]

\* NewService(sourceStore, targetStore, config)
NewService(sourceStore, targetStore, cfg) ==
    IF cfg.IntervalSize = 0
    THEN [err |-> TRUE, service |-> "nil"]
    ELSE [err |-> FALSE,
          service |-> [sourceStore |-> sourceStore, targetStore |-> targetStore,
                       config |-> cfg]]

IdleService ==
    [pc |-> "idle", start |-> 0, end |-> 0, records |-> <<>>, out |-> <<>>, i |-> 0,
     done |-> <<>>, result |-> "none", runs |-> 0, seen |-> 0, tgt0 |-> <<>>,
     attempts |-> 0, tfail |-> 0, qfail |-> 0,
     last |-> [ok |-> FALSE, start |-> 0, end |-> 0, records |-> <<>>, done |-> <<>>]]

Init ==
    /\ backend \in {"file", "sqlite"}
    /\ \E S \in SourceTypes : typeOf = [s \in StoreIds |-> IF s = Source THEN S ELSE TargetType(S)]
    /\ mem = [s \in StoreIds |-> <<>>]
    /\ disk = [s \in StoreIds |-> NoFile]
    /\ db = [s \in StoreIds |->
                IF backend = "sqlite" THEN initTable(typeOf[s], NoTable) ELSE NoTable]
    /\ mu = Unlocked
    /\ pc = [t \in Threads |-> "idle"]
    /\ arg = [t \in Threads |-> NoArg]
    /\ buf = [t \in Threads |-> <<>>]
    /\ ret = [t \in Threads |-> <<>>]
    /\ loaded = [s \in StoreIds |-> <<>>]
    /\ saved = [s \in StoreIds |-> <<>>]
    /\ failed = [s \in StoreIds |-> 0]
    /\ calls = 0
    /\ overlapped = FALSE
    /\ prior = [valid |-> FALSE, got |-> <<>>]
    /\ config = MainConfig
    /\ ~NewService(Source, Target, config).err
    /\ svc = IdleService
    /\ handle = [s \in StoreIds |-> "open"]
    /\ sched = NoSched
    /\ lastCall = NoCall
    /\ heap = NoHeap
    /\ coll = NoColl

threadVars == <<mu, pc, arg, buf, ret, loaded, saved, failed, calls, overlapped, prior>>

\* Save(rec) on store s as one step (the mutex makes it one): the new mem, disk, db
StoreSave(s, rec, outcome) ==
    IF backend = "file"
    THEN LET data == fileAppend(mem[s], rec)
         IN  /\ mem' = [mem EXCEPT ![s] = data]
             /\ disk' = [disk EXCEPT ![s] = WriteFile(@, Marshal(typeOf[s], data), outcome)]
             /\ db' = db
    ELSE /\ db' = [db EXCEPT ![s] = IF outcome = "ok" THEN sqliteInsert(typeOf[s], @, rec) ELSE @]
         /\ UNCHANGED <<mem, disk>>

\* a collector saves one record to the source store (the write succeeds); it
\* stamps the record with time.Now(), which does not run backwards
ProducerSave ==
    /\ Len(HeldOf(Source)) < MaxSource
    /\ \E rec \in RecordsOf(typeOf[Source], SourceDomain) :
          /\ \A i \in DOMAIN HeldOf(Source) :
                HeldOf(Source)[i].Timestamp <= rec.Timestamp
          /\ StoreSave(Source, rec, "ok")
    /\ UNCHANGED <<conf, lifeVars, threadVars, svc>>

\* the Service as ProcessInterval(start, end) finds it: the locals of the call
\* cleared, the summary of the previous call kept
Called(start, end) ==
    [IdleService EXCEPT
        !.start = start,
        !.end = end,
        !.runs = svc.runs + 1,
        !.seen = Len(HeldOf(Source)),
        !.tgt0 = HeldOf(Target),
        !.last = [ok |-> svc.pc = "returned" /\ svc.result = "ok",
                  start |-> svc.start, end |-> svc.end,
                  records |-> svc.records, done |-> svc.done]]

\* ProcessInterval(start, end) up to its loop:
\*   records, err := s.sourceStore.FindBetween(start, end); if err != nil { return err }
\*   if len(records) == 0 { return nil }
\*   sample := records[0].(S); anonymizedRecords, err := sample.Anonymize(records, start)
ProcessIntervalFetch ==
    /\ svc.pc \in {"idle", "returned"}
    /\ svc.runs < MaxRuns
    /\ \E iv \in Intervals, qok \in BOOLEAN :
        LET run == Called(iv[1], iv[2])
            records == FindBetweenOf(Source, iv[1], iv[2])
        IN  /\ qok \/ backend = "sqlite"
            /\ IF ~qok
               THEN svc' = onFetchError(run)
               ELSE IF NoRecords(records)
               THEN svc' = [run EXCEPT !.pc = "returned", !.result = "ok"]
               ELSE \E out \in Anonymize(typeOf[Source], records, iv[1]) :
                       svc' = [run EXCEPT !.pc = "saving", !.records = records,
                                          !.out = out, !.i = 1]
    /\ UNCHANGED <<conf, lifeVars, mem, disk, db, threadVars>>

\* a loop that reduces the source store anew for every record it saves
loopRecordLive(run) ==
    LET live == FindBetweenOf(Source, run.start, run.end)
        outs == Anonymize(typeOf[Source], live, run.start)
    IN  (CHOOSE o \in outs : TRUE)[run.i]

\* record, the loop variable of: for _, record := range anonymizedRecords
loopRecord(run) == run.out[run.i]

\* for _, record := range anonymizedRecords { s.targetStore.Save(record) ... }
ProcessIntervalSave ==
    /\ svc.pc = "saving"
    /\ svc.i <= Len(svc.out)
    /\ \E outcome \in WriteOutcomes :
          /\ StoreSave(Target, loopRecord(svc), outcome)
          /\ svc' = IF outcome = "ok"
                    THEN [svc EXCEPT !.i = @ + 1, !.attempts = @ + 1,
                                     !.done = Append(@, loopRecord(svc))]
                    ELSE onSaveError([svc EXCEPT !.attempts = @ + 1])
    /\ UNCHANGED <<conf, lifeVars, threadVars>>

\* return nil, after the loop
ProcessIntervalReturn ==
    /\ svc.pc = "saving"
    /\ svc.i > Len(svc.out)
    /\ svc' = [svc EXCEPT !.pc = "returned", !.result = "ok"]
    /\ UNCHANGED <<conf, lifeVars, mem, disk, db, threadVars>>

Next ==
    \/ ProducerSave
    \/ ProcessIntervalFetch
    \/ ProcessIntervalSave
    \/ ProcessIntervalReturn

Spec == Init /\ [][Next]_vars

-----------------------------------------------------------------------------
(* properties of ProcessInterval *)

\* the source records there were when the current ProcessInterval call began
SourceAtCall == SubSeq(HeldOf(Source), 1, svc.seen)

\* the source records of that time with a timestamp in [start, end]
InInterval == SelectSeq(SourceAtCall, LAMBDA r : InRange(r, svc.start, svc.end))

\* what the target store holds beyond what it held when the call began
Written ==
    LET held == HeldOf(Target)
    IN  SubSeq(held, Len(svc.tgt0) + 1, Len(held))

IsPrefix(p, q) == Len(p) <= Len(q) /\ SubSeq(q, 1, Len(p)) = p

\* C2: a ProcessInterval(start, end) call whose FindBetween succeeds while the
\* source store has no record with a timestamp in [start, end] returns success,
\* makes no Save call on the target store and leaves the target store as it was.
C2_EmptyIntervalIsNoOp ==
    (svc.pc # "idle" /\ svc.result # "err_fetch" /\ InInterval = <<>>) =>
        /\ svc.pc = "returned"
        /\ svc.result = "ok"
        /\ svc.attempts = 0
        /\ svc.done = <<>>
        /\ HeldOf(Target) = svc.tgt0

C2_Witness ==
    /\ svc.pc = "returned"
    /\ svc.result = "ok"
    /\ InInterval = <<>>
    /\ svc.seen >= 1
    /\ svc.attempts = 0
    /\ HeldOf(Target) = svc.tgt0

\* C6: every target record a ProcessInterval(start, end) call saves, or tries
\* to save, carries the timestamp start, whatever the timestamps of the source
\* records it found.
C6_TargetTimestampIsStart ==
    (svc.pc # "idle") =>
        LET written == Written
        IN  /\ \A i \in DOMAIN svc.done : svc.done[i][N_Timestamp] = svc.start
            /\ \A i \in DOMAIN written : written[i][N_Timestamp] = svc.start
            /\ IsPrefix(svc.done, written)

C6_Witness ==
    /\ svc.pc = "returned"
    /\ svc.result = "ok"
    /\ Len(svc.done) >= 1
    /\ Written = svc.done
    /\ svc.start # svc.end
    /\ \A i \in DOMAIN svc.records : svc.records[i][N_Timestamp] # svc.start
    /\ \A i \in DOMAIN svc.done : svc.done[i][N_Timestamp] = svc.start

\* C7: once the k-th target Save of a ProcessInterval call has failed, the call
\* has returned the error, it has made exactly k Save calls, and the target
\* store still begins with what it held before the call followed by the k-1
\* records saved before the failure.
C7_SaveFailureStopsAndKeeps ==
    (svc.tfail >= 1) =>
        /\ svc.pc = "returned"
        /\ svc.result = "err_save"
        /\ svc.tfail = 1
        /\ svc.attempts = Len(svc.done) + 1
        /\ svc.attempts <= Len(svc.out)
        /\ svc.done = SubSeq(svc.out, 1, svc.attempts - 1)
        /\ IsPrefix(svc.tgt0 \o svc.done, HeldOf(Target))
        /\ Len(HeldOf(Target)) <= Len(svc.tgt0) + svc.attempts

C7_Witness ==
    /\ svc.pc = "returned"
    /\ svc.result = "err_save"
    /\ svc.attempts = 2
    /\ Len(svc.out) = 2
    /\ Len(svc.done) = 1
    /\ IsPrefix(svc.tgt0 \o svc.done, HeldOf(Target))

\* the current call found the records the previous call found, in the same
\* interval, and both calls succeeded
SecondRun ==
    /\ svc.pc = "returned"
    /\ svc.result = "ok"
    /\ svc.last.ok
    /\ svc.last.start = svc.start
    /\ svc.last.end = svc.end
    /\ svc.records # <<>>
    /\ svc.last.records = svc.records

\* C9: a second successful ProcessInterval call on the same non-empty interval
\* with the same source records appends the same aggregate records again: the
\* target store ends with the first set, untouched, followed by the second set.
C9_RerunAppendsAgain ==
    SecondRun =>
        /\ svc.done # <<>>
        /\ SameBag(svc.done, svc.last.done)
        /\ IsPrefix(svc.last.done,
                    SubSeq(HeldOf(Target), Len(svc.tgt0) - Len(svc.last.done) + 1,
                           Len(HeldOf(Target))))
        /\ HeldOf(Target) = svc.tgt0 \o svc.done
        /\ Len(HeldOf(Target)) = Len(svc.tgt0) + Len(svc.last.done)
        /\ Len(svc.tgt0) >= Len(svc.last.done)

C9_Witness ==
    /\ SecondRun
    /\ Len(svc.done) = 2
    /\ HeldOf(Target) = svc.last.done \o svc.done

\* C21: a ProcessInterval call whose FindBetween on the source store failed
\* has returned the fetch error, holds no reduced records, made no Save call
\* on the target store and left the target store as it was; and a call that
\* returned success had no failed FindBetween and no failed target Save.
C21_FetchErrorStopsTheCall ==
    /\ svc.qfail >= 1 =>
          /\ svc.pc = "returned"
          /\ svc.result = "err_fetch"
          /\ svc.records = <<>>
          /\ svc.out = <<>>
          /\ svc.attempts = 0
          /\ HeldOf(Target) = svc.tgt0
    /\ svc.result = "ok" => svc.qfail = 0 /\ svc.tfail = 0
    /\ svc.result = "err_save" => svc.tfail >= 1
    /\ svc.result = "err_fetch" => svc.qfail >= 1

\* a call's FindBetween failed while the source store held records of the
\* interval and the target store held the aggregates of an earlier call
C21_Witness ==
    /\ svc.qfail = 1
    /\ svc.result = "err_fetch"
    /\ InInterval # <<>>
    /\ svc.tgt0 # <<>>
    /\ HeldOf(Target) = svc.tgt0

\* the sum of field n over the records of seq
RECURSIVE SumOf(_, _)
SumOf(seq, n) == IF seq = <<>> THEN 0 ELSE seq[1][n] + SumOf(Tail(seq), n)

\* C23: a ProcessInterval call that found records and returned success has
\* saved, for file changes, exactly one target record per language among the
\* records found, whose count is the number of found records of that language,
\* the counts adding up to the number of records found; and for keypresses
\* exactly one target record whose count is the number of records found.
C23_OneAggregatePerGroup ==
    (svc.pc = "returned" /\ svc.result = "ok" /\ svc.records # <<>>) =>
        LET found == svc.records
            made == Written
        IN  /\ made = svc.done
            /\ IF typeOf[Source] = FileChangeData
               THEN LET langs == {found[i][N_Language] : i \in DOMAIN found}
                    IN  /\ Len(made) = Cardinality(langs)
                        /\ \A lang \in langs :
                              \E i \in DOMAIN made :
                                 /\ made[i][N_Language] = lang
                                 /\ made[i][N_ChangesInSpan] =
                                       Cardinality({j \in DOMAIN found :
                                                       found[j][N_Language] = lang})
                        /\ SumOf(made, N_ChangesInSpan) = Len(found)
               ELSE /\ Len(made) = 1
                    /\ made[1][N_KeypressesCount] = Len(found)

\* three file changes in two languages were found and two aggregates saved
C23_Witness ==
    /\ svc.pc = "returned"
    /\ svc.result = "ok"
    /\ typeOf[Source] = FileChangeData
    /\ Len(svc.records) = 3
    /\ Cardinality({svc.records[i][N_Language] : i \in DOMAIN svc.records}) = 2
    /\ Len(Written) = 2

\* C16: the aggregates of a ProcessInterval call are the reduction of the
\* records its FindBetween returned, which are the source records in
\* [start, end] at the time of the call; what the call saves is a prefix of
\* those aggregates, whatever producers add to the source store afterwards.
C16_AggregatesOfTheSnapshot ==
    (svc.pc \in {"saving", "returned"} /\ svc.records # <<>>) =>
        LET snapshot == InInterval
        IN  /\ svc.records = snapshot
            /\ svc.out \in Anonymize(typeOf[Source], snapshot, svc.start)
            /\ IsPrefix(svc.done, svc.out)
            /\ IsPrefix(svc.done, Written)
            /\ (svc.pc = "returned" /\ svc.result = "ok") => svc.done = svc.out

\* a call has saved its one aggregate, counting one record, while the source
\* store now holds a second record in the interval, saved after the FindBetween
C16_Witness ==
    /\ svc.pc = "returned"
    /\ svc.result = "ok"
    /\ typeOf[Source] = KeypressData
    /\ Len(svc.records) = 1
    /\ svc.done = << (N_Timestamp :> svc.start) @@ (N_KeypressesCount :> 1) >>
    /\ Len(FindBetweenOf(Source, svc.start, svc.end)) = 2
    /\ Written = svc.done

\* file-change records (09:00:01, go), (09:03:00, go), (09:11:00, rust)
C10_Source ==
    << (N_Language :> "go") @@ (N_Timestamp :> 32401),
       (N_Language :> "go") @@ (N_Timestamp :> 32580),
       (N_Language :> "rust") @@ (N_Timestamp :> 33060) >>

C10_Called ==
    /\ typeOf[Source] = FileChangeData
    /\ svc.pc = "returned"
    /\ svc.result = "ok"
    /\ svc.start = 32400
    /\ svc.end = 33000
    /\ SourceAtCall = C10_Source

\* C10: with the source records (09:00:01, go), (09:03:00, go), (09:11:00, rust),
\* a successful ProcessInterval(09:00:00, 09:10:00) writes exactly one target
\* record: timestamp 09:00:00, language go, count 2.
C10_GoGoRust ==
    C10_Called =>
        /\ svc.done = << (N_Timestamp :> 32400) @@ (N_Language :> "go")
                            @@ (N_ChangesInSpan :> 2) >>
        /\ Written = svc.done
        /\ svc.attempts = 1

C10_Witness ==
    /\ C10_Called
    /\ Len(Written) = 1
    /\ Written[1][N_Language] = "go"
    /\ Written[1][N_ChangesInSpan] = 2

\* C12: every step of the system (a producer's Save, the FindBetween and the
\* target Saves of ProcessInterval) leaves each store's earlier records in
\* place, unmodified, at the same positions, and no step of ProcessInterval
\* changes the source store.
C12_StoresOnlyGrow ==
    [][ /\ \A s \in StoreIds :
              \/ <<conf, mem[s], db[s]>>' = <<conf, mem[s], db[s]>>
              \/ IsPrefix(HeldOf(s), HeldOf(s)')
        /\ svc' # svc => HeldOf(Source)' = HeldOf(Source) ]_vars

\* a second call has saved its aggregates after the first call's, and the
\* producers have added to the source store since the call began
C12_Witness ==
    /\ svc.pc = "returned"
    /\ svc.result = "ok"
    /\ svc.tgt0 # <<>>
    /\ svc.done # <<>>
    /\ HeldOf(Target) = svc.tgt0 \o svc.done
    /\ Len(HeldOf(Source)) > svc.seen

-----------------------------------------------------------------------------
(* Construction, use and Close of one store and of the Service: SpecLife *)

\* no Service has been constructed
NoService == [pc |-> "none"]

\* the interval sizes a caller may configure, in seconds (time.Duration is signed)
IntervalSizes == {-600, 0, 1, 600}

\* svc, err := anon.NewService(sourceStore, targetStore, anon.Config{IntervalSize: n}),
\* which main calls before any store is used
LifeNewService ==
    /\ svc = NoService
    /\ calls = 0
    /\ \E n \in IntervalSizes :
          LET r == NewService(Source, Target, [IntervalSize |-> n])
          IN  /\ config' = [IntervalSize |-> n]
              /\ svc' = IF r.err THEN NoService ELSE IdleService
              /\ lastCall' = [op |-> "NewService", err |-> r.err, service |-> r.service]
    /\ UNCHANGED <<conf, goVars, sched, mem, disk, db, threadVars, handle>>

\* the files a store may be constructed on: none, an undecodable one, and a
\* JSON array of up to one record, readable or not
LifeFiles(T) ==
    {NoFile, Corrupt}
        \cup {JsonFile(Marshal(T, recs)) : recs \in {<<>>} \cup {<<r>> : r \in RecordsOf(T, StoreDomain)}}
        \cup {Unreadable(Marshal(T, <<r>>)) : r \in RecordsOf(T, StoreDomain)}

\* the process has started: the file or database is there, nothing is constructed
InitLife ==
    /\ backend \in {"file", "sqlite"}
    /\ \E T \in RecordTypes : typeOf = [s \in StoreIds |-> T]
    /\ mem = [s \in StoreIds |-> <<>>]
    /\ \E f \in LifeFiles(typeOf[Sut]) :
          disk = [s \in StoreIds |-> IF s = Sut /\ backend = "file" THEN f ELSE NoFile]
    /\ db = [s \in StoreIds |-> NoTable]
    /\ mu = Unlocked
    /\ pc = [t \in Threads |-> "idle"]
    /\ arg = [t \in Threads |-> NoArg]
    /\ buf = [t \in Threads |-> <<>>]
    /\ ret = [t \in Threads |-> <<>>]
    /\ loaded = [s \in StoreIds |-> <<>>]
    /\ saved = [s \in StoreIds |-> <<>>]
    /\ failed = [s \in StoreIds |-> 0]
    /\ calls = 0
    /\ overlapped = FALSE
    /\ prior = [valid |-> FALSE, got |-> <<>>]
    /\ svc = NoService
    /\ config = MainConfig
    /\ handle = [s \in StoreIds |-> "none"]
    /\ sched = NoSched
    /\ lastCall = NoCall
    /\ heap = NoHeap
    /\ coll = NoColl

\* fs, err := storage.NewFileStore[T](filepath)
LifeNewFileStore ==
    /\ backend = "file"
    /\ handle[Sut] = "none"
    /\ LET r == NewFileStore(typeOf[Sut], disk[Sut])
       IN  /\ disk' = [disk EXCEPT ![Sut] = r.file]
           /\ mem' = [mem EXCEPT ![Sut] = r.data]
           /\ loaded' = [loaded EXCEPT ![Sut] = r.data]
           /\ handle' = [handle EXCEPT ![Sut] = IF r.err THEN "none" ELSE "open"]
           /\ lastCall' = [op |-> "NewFileStore", err |-> r.err, file |-> disk[Sut]]
    /\ UNCHANGED <<conf, goVars, sched, db, mu, pc, arg, buf, ret, saved, failed, calls, overlapped, prior,
                   svc, config>>

\* a handle on which Exec and Query go on working after Close
UsableAlways(h) == TRUE

\* s.db.Exec / s.db.Query start only on a sql.DB that has not been closed
Usable(h) == h = "open"

\* store, err := storage.NewSQLiteStore[T](dbPath): sql.Open, then initTable
LifeNewSQLiteStore ==
    /\ backend = "sqlite"
    /\ handle[Sut] = "none"
    /\ \E ok \in BOOLEAN :
          /\ db' = [db EXCEPT ![Sut] = IF ok THEN initTable(typeOf[Sut], @) ELSE @]
          /\ handle' = [handle EXCEPT ![Sut] = IF ok THEN "open" ELSE "none"]
          /\ lastCall' = [op |-> "NewSQLiteStore", err |-> ~ok]
    /\ loaded' = [loaded EXCEPT ![Sut] = TableRecords(Sut)]
    /\ UNCHANGED <<conf, goVars, sched, mem, disk, mu, pc, arg, buf, ret, saved, failed, calls, overlapped,
                   prior, svc, config>>

\* store.Close(): return s.db.Close()
LifeClose ==
    /\ backend = "sqlite"
    /\ handle[Sut] \in {"open", "closed"}
    /\ handle' = [handle EXCEPT ![Sut] = "closed"]
    /\ lastCall' = [op |-> "Close", err |-> FALSE]
    /\ UNCHANGED <<conf, goVars, sched, mem, disk, db, threadVars, svc, config>>

\* store.Save(rec) by the one caller of the lifecycle model
LifeSave ==
    /\ handle[Sut] # "none"
    /\ calls < MaxCalls
    /\ \E rec \in RecordsOf(typeOf[Sut], StoreDomain), w \in WriteOutcomes :
          LET ok == w = "ok" /\ (backend = "sqlite" => Usable(handle[Sut]))
          IN  /\ StoreSave(Sut, rec, IF backend = "sqlite" /\ ~ok THEN "open_fails" ELSE w)
              /\ (backend = "sqlite" => w # "write_fails")
              /\ saved' = [saved EXCEPT ![Sut] = IF ok THEN Append(@, rec) ELSE @]
              /\ failed' = [failed EXCEPT ![Sut] = IF ok THEN @ ELSE @ + 1]
              /\ lastCall' = [op |-> "Save", err |-> ~ok, before |-> HeldOf(Sut),
                              got |-> <<>>,
                              columns |-> IF backend = "sqlite"
                                          THEN getFieldsAndTypes(typeOf[Sut]).columns
                                          ELSE <<>>]
    /\ calls' = calls + 1
    /\ UNCHANGED <<conf, goVars, sched, mu, pc, arg, buf, ret, loaded, overlapped, prior, svc, config, handle>>

\* store.Get() and store.FindBetween(a, b) by the one caller of the lifecycle model
LifeRead ==
    /\ handle[Sut] # "none"
    /\ calls < MaxCalls
    /\ \E ok \in BOOLEAN, find \in BOOLEAN, a, b \in StoreDomain.times :
          LET err == backend = "sqlite" /\ ~(ok /\ Usable(handle[Sut]))
          IN  /\ (backend = "file" => ok)
              /\ (~find => a = b)
              /\ lastCall' = [op |-> IF find THEN "FindBetween" ELSE "Get",
                              err |-> err, before |-> HeldOf(Sut),
                              got |-> IF err THEN <<>>
                                      ELSE IF find THEN FindBetweenOf(Sut, a, b)
                                      ELSE GetOf(Sut)]
    /\ calls' = calls + 1
    /\ UNCHANGED <<conf, goVars, sched, mem, disk, db, mu, pc, arg, buf, ret, loaded, saved, failed,
                   overlapped, prior, svc, config, handle>>

\* the kinds of Go field a record type may declare
GoKinds == {"string", "int", "int64", "int32", "float64", "float32", "bool", "time", "struct"}

\* the sql tags a field may carry: none, the exclusion mark, an explicit type
SqlTags == {"", "-", "VARCHAR(8)"}

\* struct types of two fields: the first of any kind, tag and visibility (its
\* name is Key, or key when unexported), the second a string field Language
\* that may be excluded
LifeStructs ==
    { << [name |-> IF e THEN N_Key ELSE "key", kind |-> k, sql |-> g, json |-> "key",
          exported |-> e],
         [name |-> N_Language, kind |-> "string", sql |-> g2, json |-> "language",
          exported |-> TRUE] >> :
      k \in GoKinds, g \in SqlTags, e \in BOOLEAN, g2 \in {"", "-"} }

\* columns, types, fields, err := getFieldsAndTypes[T]() for a struct type T,
\* as NewSQLiteStore's initTable calls it first
LifeGetFieldsAndTypes ==
    /\ backend = "sqlite"
    /\ lastCall.op = "none"
    /\ \E fs \in LifeStructs :
          lastCall' = [op |-> "getFieldsAndTypes", struct |-> fs, ft |-> inferFields(fs)]
    /\ UNCHANGED <<conf, goVars, mem, disk, db, threadVars, svc, config, handle, sched>>

C24_NewServiceRejectsNonPositive ==
    (lastCall.op = "NewService" /\ config.IntervalSize <= 0) =>
        /\ lastCall.err
        /\ lastCall.service = "nil"
        /\ svc = NoService

\* C14: NewFileStore fails, giving no store, when the file exists but cannot
\* be read or cannot be decoded; it gives a store with an empty collection
\* when the file does not exist; it gives the decoded records otherwise; and
\* it leaves the file as it found it every time.
C14_NewFileStoreFailsOrLoads ==
    (lastCall.op = "NewFileStore") =>
        /\ disk[Sut] = lastCall.file
        /\ lastCall.err <=> lastCall.file.state \in {"unreadable", "corrupt"}
        /\ lastCall.err => handle[Sut] = "none" /\ mem[Sut] = <<>>
        /\ lastCall.file.state = "absent" =>
              handle[Sut] = "open" /\ GetOf(Sut) = <<>>
        /\ lastCall.file.state = "json" =>
              handle[Sut] = "open" /\ GetOf(Sut) = Unmarshal(typeOf[Sut], lastCall.file.bytes)

\* construction has failed on a file that holds a record and cannot be read
C14_Witness ==
    /\ lastCall.op = "NewFileStore"
    /\ lastCall.err
    /\ disk[Sut].state = "unreadable"
    /\ Len(disk[Sut].bytes) = 1
    /\ handle[Sut] = "none"

\* C25: a file-backed Save that returned an error left the in-memory
\* collection as it was before the call; the collection holds the records
\* loaded at construction and those of the Saves that succeeded, and no
\* others; Get and FindBetween return none but these; and the file, when a
\* Save has written it, holds none but these.
C25_FailedSaveLeavesStore ==
    (backend = "file" /\ handle[Sut] = "open") =>
        /\ (lastCall.op = "Save" /\ lastCall.err) => mem[Sut] = lastCall.before
        /\ mem[Sut] = ExpectedOf(Sut)
        /\ (lastCall.op = "Get" /\ lastCall.before = mem[Sut]) =>
              lastCall.got = ExpectedOf(Sut)
        /\ (lastCall.op = "FindBetween" /\ lastCall.before = mem[Sut]) =>
              \A i \in DOMAIN lastCall.got :
                 \E j \in DOMAIN ExpectedOf(Sut) : ExpectedOf(Sut)[j] = lastCall.got[i]
        /\ disk[Sut].state = "json" =>
              IsPrefix(Unmarshal(typeOf[Sut], disk[Sut].bytes), ExpectedOf(Sut))

\* C15: once Close has been called on a SQLite store, every Save, Get and
\* FindBetween on it returns an error, returns no records and leaves the table
\* as it was.
C15_ClosedStoreFails ==
    (backend = "sqlite" /\ handle[Sut] = "closed"
        /\ lastCall.op \in {"Save", "Get", "FindBetween"}) =>
        /\ lastCall.err
        /\ lastCall.got = <<>>
        /\ HeldOf(Sut) = lastCall.before

\* a Save on a closed store that holds a record saved before Close
C15_Witness ==
    /\ backend = "sqlite"
    /\ handle[Sut] = "closed"
    /\ lastCall.op = "Save"
    /\ lastCall.err
    /\ Len(saved[Sut]) = 1
    /\ HeldOf(Sut) = lastCall.before
    /\ Len(HeldOf(Sut)) = 1

\* the default mapping the specification gives: text for string, integer for
\* whole numbers, real for floating point, the date-time type for time.Time,
\* text for anything else
SpecifiedType(kind) ==
    CASE kind = "string" -> "TEXT"
      [] kind \in {"int", "int64", "int32"} -> "INTEGER"
      [] kind \in {"float64", "float32"} -> "REAL"
      [] kind = "time" -> "DATETIME"
      [] OTHER -> "TEXT"

\* C18: the storage type of each inferred column is the field's sql tag when
\* it has one, otherwise text for a string, integer for a whole number, real
\* for a floating point number, the date-time type for a time.Time and text
\* for every other field type.
C18_ColumnTypeMapping ==
    (lastCall.op = "getFieldsAndTypes") =>
        \A i \in DOMAIN lastCall.ft.fields :
            LET f == lastCall.struct[CHOOSE j \in DOMAIN lastCall.struct :
                                        lastCall.struct[j].name = lastCall.ft.fields[i]]
            IN  lastCall.ft.types[i] = IF f.sql # "" THEN f.sql ELSE SpecifiedType(f.kind)

\* the default mapping as amended: integer only for int and int64, real only
\* for float64, BOOLEAN for bool, text for every other kind
AmendedType(kind) ==
    CASE kind = "string" -> "TEXT"
      [] kind = "int" -> "INTEGER"
      [] kind = "int64" -> "INTEGER"
      [] kind = "float64" -> "REAL"
      [] kind = "bool" -> "BOOLEAN"
      [] kind = "time" -> "DATETIME"
      [] kind \in {"int32", "float32", "struct"} -> "TEXT"

\* C18 (amended): the storage type of each inferred column is the field's sql
\* tag when it has a non-empty one, otherwise TEXT for a string, INTEGER for an
\* int or int64, REAL for a float64, BOOLEAN for a bool, DATETIME for a
\* time.Time and TEXT for every other field type, the other integer and float
\* widths included; a field tagged "-" or unexported has no column.
C18_ColumnTypeMappingAmended ==
    (lastCall.op = "getFieldsAndTypes") =>
        /\ Len(lastCall.ft.types) = Len(lastCall.ft.fields)
        /\ \A i \in DOMAIN lastCall.ft.fields :
              LET f == lastCall.struct[CHOOSE j \in DOMAIN lastCall.struct :
                                          lastCall.struct[j].name = lastCall.ft.fields[i]]
              IN  /\ f.exported /\ f.sql # "-"
                  /\ lastCall.ft.types[i] = IF f.sql # "" THEN f.sql ELSE AmendedType(f.kind)

\* an untagged bool field and an untagged string field have been mapped
C18_Witness ==
    /\ lastCall.op = "getFieldsAndTypes"
    /\ lastCall.struct[1].kind = "bool"
    /\ lastCall.struct[1].sql = ""
    /\ lastCall.struct[2].sql = ""
    /\ lastCall.ft.types = <<"BOOLEAN", "TEXT">>

\* the lower-cased names of the exported fields of fs that are not tagged "-",
\* in declaration order
PersistedColumns(fs) ==
    LET keep == SelectSeq(fs, LAMBDA f : f.exported /\ f.sql # "-")
    IN  [i \in DOMAIN keep |-> Word(ToLower(Spell[keep[i].name]))]

\* C19: the columns of a SQLite store's table are, from its creation on, id
\* followed by the lower-cased names of the record type's exported fields not
\* tagged "-", in declaration order; every Save's insert names exactly those
\* columns and every row has exactly them; and getFieldsAndTypes gives that
\* list for every struct type.
C19_ColumnsFixed ==
    /\ db[Sut].exists =>
          /\ db[Sut].cols = <<C_id>> \o PersistedColumns(StructFields(typeOf[Sut]))
          /\ \A i \in DOMAIN db[Sut].rows : DOMAIN db[Sut].rows[i] = Range(db[Sut].cols)
    /\ (backend = "sqlite" /\ lastCall.op = "Save") =>
          /\ db[Sut].cols = <<C_id>> \o lastCall.columns
          /\ lastCall.columns = PersistedColumns(StructFields(typeOf[Sut]))
    /\ (lastCall.op = "getFieldsAndTypes") =>
          lastCall.ft.columns = PersistedColumns(lastCall.struct)

\* the second successful Save into the table of the aggregate type
\* KeypressAnonymousStats, whose columns are id, timestamp, keypressescount
C19_Witness ==
    /\ backend = "sqlite"
    /\ typeOf[Sut] = KeypressAnonymousStats
    /\ lastCall.op = "Save"
    /\ ~lastCall.err
    /\ Len(db[Sut].rows) = 2
    /\ db[Sut].cols = <<"id", "timestamp", "keypressescount">>
    /\ lastCall.columns = <<"timestamp", "keypressescount">>

NextLife ==
    \/ LifeGetFieldsAndTypes
    \/ LifeNewService
    \/ LifeNewFileStore
    \/ LifeNewSQLiteStore
    \/ LifeClose
    \/ LifeSave
    \/ LifeRead

SpecLife == InitLife /\ [][NextLife]_vars

-----------------------------------------------------------------------------
(* cmd: main's scheduler of the keypress anonymizer: SpecSched *)

\* time.NewTicker(10 * time.Minute): the period, in clock units of five minutes
TickPeriod == 2

\* the collectors are running, the stores are empty, the ticker is not yet made
InitSched ==
    /\ backend \in {"file", "sqlite"}
    /\ typeOf = [s \in StoreIds |->
                    IF s = Source THEN KeypressData ELSE TargetType(KeypressData)]
    /\ mem = [s \in StoreIds |-> <<>>]
    /\ disk = [s \in StoreIds |-> NoFile]
    /\ db = [s \in StoreIds |->
                IF backend = "sqlite" THEN initTable(typeOf[s], NoTable) ELSE NoTable]
    /\ mu = Unlocked
    /\ pc = [t \in Threads |-> "idle"]
    /\ arg = [t \in Threads |-> NoArg]
    /\ buf = [t \in Threads |-> <<>>]
    /\ ret = [t \in Threads |-> <<>>]
    /\ loaded = [s \in StoreIds |-> <<>>]
    /\ saved = [s \in StoreIds |-> <<>>]
    /\ failed = [s \in StoreIds |-> 0]
    /\ calls = 0
    /\ overlapped = FALSE
    /\ prior = [valid |-> FALSE, got |-> <<>>]
    /\ svc = IdleService
    /\ config = MainConfig
    /\ handle = [s \in StoreIds |-> "open"]
    /\ sched = [phase |-> "collecting", clock |-> TickPeriod, tickerStart |-> 0,
                nextTick |-> 0, windows |-> <<>>, counted |-> <<>>]
    /\ lastCall = NoCall
    /\ heap = NoHeap
    /\ coll = NoColl

schedFrame == <<conf, threadVars, svc, config, handle, lastCall, goVars>>

\* time passes: a clock unit of five minutes, which does not elapse between
\* time.NewTicker and the time.Now() four lines below it
SchedClock ==
    /\ sched.clock < MaxClock
    /\ sched.phase # "ticker"
    /\ sched' = [sched EXCEPT !.clock = @ + 1]
    /\ UNCHANGED <<mem, disk, db, schedFrame>>

\* the keypress collector saves KeypressData{Key, Timestamp: time.Now()}
SchedCollect ==
    /\ Len(HeldOf(Source)) < MaxSource
    /\ StoreSave(Source, (N_Key :> "a") @@ (N_Timestamp :> sched.clock), "ok")
    /\ UNCHANGED <<sched, schedFrame>>

\* ticker := time.NewTicker(10 * time.Minute)
SchedNewTicker ==
    /\ sched.phase = "collecting"
    /\ sched' = [sched EXCEPT !.phase = "ticker", !.tickerStart = sched.clock]
    /\ UNCHANGED <<mem, disk, db, schedFrame>>

\* keypressAnonymizer.ProcessInterval(start, end), run to its end with every
\* Save succeeding: the stores after it, and the window added to the record
SchedProcess(start, end) ==
    LET records == FindBetweenOf(Source, start, end)
    IN  /\ IF NoRecords(records)
           THEN UNCHANGED <<mem, disk, db>>
           ELSE \E out \in Anonymize(typeOf[Source], records, start) :
                   StoreSave(Target, out[1], "ok")
        /\ sched' = [sched EXCEPT !.phase = "loop",
                                  !.nextTick = IF sched.phase = "ticker"
                                               THEN sched.tickerStart + TickPeriod
                                               ELSE end + TickPeriod,
                                  !.windows = Append(@, <<start, end>>),
                                  !.counted = @ \o records]

\* now := time.Now(); start := now.Add(-10 * time.Minute); ProcessInterval(start, now)
SchedFirstRun ==
    /\ sched.phase = "ticker"
    /\ SchedProcess(sched.clock - TickPeriod, sched.clock)
    /\ UNCHANGED schedFrame

\* case t := <-ticker.C: start := t.Add(-10 * time.Minute); ProcessInterval(start, t)
SchedTick ==
    /\ sched.phase = "loop"
    /\ sched.clock >= sched.nextTick
    /\ SchedProcess(sched.nextTick - TickPeriod, sched.nextTick)
    /\ UNCHANGED schedFrame

NextSched ==
    \/ SchedClock
    \/ SchedCollect
    \/ SchedNewTicker
    \/ SchedFirstRun
    \/ SchedTick

SpecSched == InitSched /\ [][NextSched]_vars

\* C17: the windows main's scheduler has processed do not overlap, no source
\* record has been counted in more than one of them, and every source record
\* older than the last window has been counted in one.
C17_WindowsPartitionRecords ==
    (sched.phase = "loop") =>
        LET w == sched.windows
            src == HeldOf(Source)
        IN  /\ \A k \in 1..(Len(w) - 1) : w[k][2] < w[k + 1][1]
            /\ \A r \in Range(src) : Count(r, sched.counted) <= Count(r, src)
            /\ \A r \in Range(src) :
                  (w[1][1] <= r[N_Timestamp] /\ r[N_Timestamp] < w[Len(w)][1]) =>
                      Count(r, sched.counted) >= Count(r, src)

-----------------------------------------------------------------------------
(* storage: FileStore.data as a Go slice over its backing arrays: SpecSlice *)

\* the largest capacity a backing array of the model is given
MaxCap == 3

\* the elements s[0:len] a slice header shows
View(h, hdr) == [i \in 1..hdr.len |-> h.arrays[hdr.arr][i]]

\* one backing array of capacity c that starts with recs, and data over it
Allocated(T, recs, c) ==
    [arrays |-> << [i \in 1..c |-> IF i <= Len(recs) THEN recs[i] ELSE ZeroRecord(T)] >>,
     data |-> [arr |-> 1, len |-> Len(recs), cap |-> c]]

\* a store that keeps at most cap(data) records: once the backing array is
\* full the new record takes the place of the oldest one
sliceAppendBounded(T, h, rec) ==
    LET d == h.data
    IN  IF d.cap = 0
        THEN {[arrays |-> Append(h.arrays, <<rec>>),
               data |-> [arr |-> Len(h.arrays) + 1, len |-> 1, cap |-> 1]]}
        ELSE IF d.len < d.cap
        THEN {[h EXCEPT !.arrays[d.arr][d.len + 1] = rec, !.data.len = d.len + 1]}
        ELSE {[h EXCEPT !.arrays[d.arr][1] = rec]}

\* append(fs.data, data): with spare capacity the element is written behind
\* the last one in the same backing array; without, the elements are copied
\* to a new, larger backing array (how much larger is up to the runtime)
sliceAppend(T, h, rec) ==
    LET d == h.data
    IN  IF d.len < d.cap
        THEN {[h EXCEPT !.arrays[d.arr][d.len + 1] = rec, !.data.len = d.len + 1]}
        ELSE {[arrays |-> Append(h.arrays,
                                 [i \in 1..c |->
                                     IF i <= d.len THEN h.arrays[d.arr][i]
                                     ELSE IF i = d.len + 1 THEN rec
                                     ELSE ZeroRecord(T)]),
               data |-> [arr |-> Len(h.arrays) + 1, len |-> d.len + 1, cap |-> c]] :
              c \in (d.len + 1)..(IF d.len + 1 > MaxCap THEN d.len + 1 ELSE MaxCap)}

\* fs, err := NewFileStore[T](filepath) has returned a store: data is
\* make([]T, 0) when there is no file, and what json.Unmarshal built otherwise
InitSlice ==
    /\ backend = "file"
    /\ \E T \in RecordTypes : typeOf = [s \in StoreIds |-> T]
    /\ \E f \in {g \in LifeFiles(typeOf[Sut]) : ~NewFileStore(typeOf[Sut], g).err} :
          LET r == NewFileStore(typeOf[Sut], f)
          IN  /\ disk = [s \in StoreIds |-> IF s = Sut THEN f ELSE NoFile]
              /\ mem = [s \in StoreIds |-> IF s = Sut THEN r.data ELSE <<>>]
              /\ loaded = [s \in StoreIds |-> IF s = Sut THEN r.data ELSE <<>>]
              /\ \E c \in Len(r.data)..(IF r.data = <<>> THEN 0 ELSE MaxCap) :
                    heap = Allocated(typeOf[Sut], r.data, c)
    /\ db = [s \in StoreIds |-> NoTable]
    /\ mu = Unlocked
    /\ pc = [t \in Threads |-> "idle"]
    /\ arg = [t \in Threads |-> NoArg]
    /\ buf = [t \in Threads |-> <<>>]
    /\ ret = [t \in Threads |-> <<>>]
    /\ saved = [s \in StoreIds |-> <<>>]
    /\ failed = [s \in StoreIds |-> 0]
    /\ calls = 0
    /\ overlapped = FALSE
    /\ prior = [valid |-> FALSE, got |-> <<>>]
    /\ svc = NoService
    /\ config = MainConfig
    /\ handle = [s \in StoreIds |-> "open"]
    /\ sched = NoSched
    /\ lastCall = NoCall
    /\ coll = NoColl

\* FileStore.Save(data), one step under fs.mu.Lock():
\*   fs.data = append(fs.data, data); return fs.persist()
SliceSave ==
    /\ calls < MaxCalls
    /\ \E rec \in RecordsOf(typeOf[Sut], StoreDomain), outcome \in WriteOutcomes :
          /\ \E h \in sliceAppend(typeOf[Sut], heap, rec) : heap' = h
          /\ mem' = [mem EXCEPT ![Sut] = View(heap', heap'.data)]
          /\ disk' = [disk EXCEPT ![Sut] = WriteFile(@, Marshal(typeOf[Sut], mem'[Sut]), outcome)]
          /\ IF outcome = "ok"
             THEN saved' = [saved EXCEPT ![Sut] = Append(@, rec)] /\ failed' = failed
             ELSE failed' = [failed EXCEPT ![Sut] = @ + 1] /\ saved' = saved
    /\ calls' = calls + 1
    /\ UNCHANGED <<conf, db, mu, pc, arg, buf, ret, loaded, overlapped, prior, svc,
                   config, handle, sched, lastCall, coll>>

\* FileStore.Get(), one step under fs.mu.RLock(): return fs.data, nil. The
\* caller receives the slice header of data, not a copy of the elements
SliceGet ==
    /\ lastCall' = [op |-> "Get", err |-> FALSE, hdr |-> heap.data,
                    got |-> fileGet(View(heap, heap.data))]
    /\ lastCall' # lastCall
    /\ UNCHANGED <<conf, mem, disk, db, threadVars, svc, config, handle, sched, heap, coll>>

NextSlice ==
    \/ SliceSave
    \/ SliceGet

SpecSlice == InitSlice /\ [][NextSlice]_vars

\* C22: the slice a Get call returned shows the same records, and as many of
\* them, as it showed when the call returned, whatever Save calls have
\* completed since.
C22_GetResultIsSnapshot ==
    lastCall.op = "Get" =>
        /\ lastCall.hdr.len = Len(lastCall.got)
        /\ View(heap, lastCall.hdr) = lastCall.got

\* after a Get that returned one record, a Save has written its record into
\* the spare capacity of the very backing array the caller's slice points to
C22_Witness ==
    /\ lastCall.op = "Get"
    /\ Len(lastCall.got) = 1
    /\ heap.data.arr = lastCall.hdr.arr
    /\ heap.data.len > lastCall.hdr.len
    /\ Len(mem[Sut]) = 2

-----------------------------------------------------------------------------
(* internal/collector and cmd: main with its two running collectors, from the
   select loop to the end of the process: SpecColl *)

\* number of key-down events the event tap delivers in one behaviour
MaxKeys == 2
\* capacity of keyChan in the model (make(chan int64, 100), scaled down)
KeyChanCap == 1
\* number of events the watcher delivers in one behaviour
MaxEvents == 2

\* the keycodes the event tap reports: one that keycodeMap names, one it does not
Keycodes == {0, 200}

\* keyCodeToString(keycode)
keyCodeToString(keycode) ==
    CASE keycode = 0 -> "a"
      [] keycode = 36 -> "return"
      [] OTHER -> "key_" \o ToString(keycode)

\* file names, character by character: a.go, a.sh, a.txt, d.go/x
PathNames ==
    { <<"a", ".", "g", "o">>, <<"a", ".", "s", "h">>, <<"a", ".", "t", "x", "t">>,
      <<"d", ".", "g", "o", "/", "x">> }

\* fsnotify.Op is a set of bits; the sets the watcher reports in the model
EventOps == {{"Write"}, {"Create"}, {"Remove"}, {"Rename"}, {"Chmod"}, {"Write", "Chmod"}}

WatcherEvents == [Name : PathNames, Op : EventOps]

\* filepath.Ext(path): the suffix from the last dot of the last element of
\* path, empty when that element has no dot
RECURSIVE ExtFrom(_, _)
ExtFrom(path, i) ==
    IF i < 1 \/ path[i] = "/" THEN <<>>
    ELSE IF path[i] = "." THEN SubSeq(path, i, Len(path))
    ELSE ExtFrom(path, i - 1)

Ext(path) == ExtFrom(path, Len(path))

\* languageMap, the entries for .go, .rs and .sh
languageMap ==
    (<<".", "g", "o">> :> "go") @@ (<<".", "r", "s">> :> "rust") @@ (<<".", "s", "h">> :> "shell")

\* getLanguage(path)
getLanguage(path) ==
    IF Ext(path) \in DOMAIN languageMap THEN languageMap[Ext(path)] ELSE ""

\* isCodeFile(path)
isCodeFile(path) == getLanguage(path) # ""

\* a switch that lets every kind of event through
wantedOpAny(op) == TRUE

\* the switch of watch: Write, Create and Remove go on, the default continues
wantedOp(op) == "Write" \in op \/ "Create" \in op \/ "Remove" \in op

\* the calls main has deferred when it reaches its loop, last deferred first
MainDefers ==
    << "ticker.Stop", "fileChangeAnonStore.Close", "keypressAnonStore.Close",
       "fileCollector.Stop", "fileChangeStore.Close", "keypressStore.Close" >>

\* main has started both collectors, built the services and entered its loop
InitColl ==
    /\ backend = "sqlite"
    /\ typeOf = [s \in StoreIds |-> IF s = Source THEN KeypressData ELSE FileChangeData]
    /\ mem = [s \in StoreIds |-> <<>>]
    /\ disk = [s \in StoreIds |-> NoFile]
    /\ db = [s \in StoreIds |-> initTable(typeOf[s], NoTable)]
    /\ mu = Unlocked
    /\ pc = [t \in Threads |-> "idle"]
    /\ arg = [t \in Threads |-> NoArg]
    /\ buf = [t \in Threads |-> <<>>]
    /\ ret = [t \in Threads |-> <<>>]
    /\ loaded = [s \in StoreIds |-> <<>>]
    /\ saved = [s \in StoreIds |-> <<>>]
    /\ failed = [s \in StoreIds |-> 0]
    /\ calls = 0
    /\ overlapped = FALSE
    /\ prior = [valid |-> FALSE, got |-> <<>>]
    /\ svc = IdleService
    /\ config = MainConfig
    /\ handle = [s \in StoreIds |-> "open"]
    /\ sched = NoSched
    /\ lastCall = NoCall
    /\ heap = NoHeap
    /\ coll = [main |-> "loop", defers |-> MainDefers, ran |-> <<>>, panicked |-> FALSE,
               stops |-> [keypress |-> 0, file |-> 0],
               callbackMutex |-> "free", globalCallback |-> "kc", keyChan |-> <<>>,
               sending |-> <<>>, kcStopChan |-> "open", kcLoop |-> "select",
               taps |-> 0, enqueued |-> <<>>, passed |-> <<>>, lateEnqueue |-> FALSE,
               fcStopChan |-> "open", watcher |-> "open", fcLoop |-> "select",
               events |-> 0, saves |-> 0, failedSaves |-> 0,
               last |-> [seen |-> FALSE]]

collFrame == <<conf, mem, disk, db, threadVars, svc, config, handle, sched, lastCall, heap>>

\* external_go_callback(_, keycode): callbackMutex.Lock(), and the send when
\* globalCallback and its keyChan are set; a send on a full channel blocks
\* with the mutex held
Callback ==
    /\ coll.taps < MaxKeys
    /\ coll.callbackMutex = "free"
    /\ \E keycode \in Keycodes :
          coll' =
            IF coll.globalCallback = "nil"
            THEN [coll EXCEPT !.taps = @ + 1]
            ELSE IF Len(coll.keyChan) < KeyChanCap
            THEN [coll EXCEPT !.taps = @ + 1,
                              !.keyChan = Append(@, keycode),
                              !.enqueued = Append(@, keycode),
                              !.lateEnqueue = @ \/ coll.stops.keypress > 0]
            ELSE [coll EXCEPT !.taps = @ + 1,
                              !.callbackMutex = "callback",
                              !.sending = <<keycode>>]
    /\ UNCHANGED collFrame

\* the blocked send of external_go_callback goes through, then callbackMutex.Unlock()
CallbackSent ==
    /\ coll.callbackMutex = "callback"
    /\ Len(coll.keyChan) < KeyChanCap
    /\ coll' = [coll EXCEPT !.keyChan = Append(@, coll.sending[1]),
                            !.enqueued = Append(@, coll.sending[1]),
                            !.lateEnqueue = @ \/ coll.stops.keypress > 0,
                            !.sending = <<>>,
                            !.callbackMutex = "free"]
    /\ UNCHANGED collFrame

\* the goroutine of KeypressCollector.Start, case keycode := <-kc.keyChan:
\* build the record and Save it, log a failure, select again
KeypressReceive ==
    /\ coll.kcLoop = "select"
    /\ coll.keyChan # <<>>
    /\ coll' = [coll EXCEPT !.keyChan = Tail(@),
                            !.passed = Append(@, keyCodeToString(Head(coll.keyChan)))]
    /\ UNCHANGED collFrame

\* the goroutine of KeypressCollector.Start, case <-kc.stopChan: return; select
\* may take this case while keyChan still holds keycodes
KeypressReturn ==
    /\ coll.kcLoop = "select"
    /\ coll.kcStopChan = "closed"
    /\ coll' = [coll EXCEPT !.kcLoop = "returned"]
    /\ UNCHANGED collFrame

\* FileChangeCollector.watch, case event, ok := <-fc.watcher.Events with ok:
\* the two filters, getLanguage, the record, Save, a logged failure
WatchEvent ==
    /\ coll.fcLoop = "select"
    /\ coll.watcher = "open"
    /\ coll.events < MaxEvents
    /\ \E event \in WatcherEvents, ok \in BOOLEAN :
          LET save == /\ isCodeFile(event.Name)
                      /\ wantedOp(event.Op)
                      /\ getLanguage(event.Name) # ""
          IN  /\ (~save => ok)
              /\ coll' = [coll EXCEPT
                            !.events = @ + 1,
                            !.saves = IF save THEN @ + 1 ELSE @,
                            !.failedSaves = IF save /\ ~ok THEN @ + 1 ELSE @,
                            !.last = [seen |-> TRUE, event |-> event,
                                      saveCalls |-> IF save THEN 1 ELSE 0, failed |-> ~ok,
                                      language |-> IF save THEN getLanguage(event.Name)
                                                   ELSE ""]]
    /\ UNCHANGED collFrame

\* FileChangeCollector.watch returns: case <-fc.stopChan, or a receive from
\* the closed Events or Errors channel
WatchReturn ==
    /\ coll.fcLoop = "select"
    /\ coll.fcStopChan = "closed" \/ coll.watcher = "closed"
    /\ coll' = [coll EXCEPT !.fcLoop = "returned"]
    /\ UNCHANGED collFrame

\* KeypressCollector.Stop(): clear globalCallback under callbackMutex, then
\* close(kc.stopChan), which panics on a closed channel
keypressStop(c) ==
    [c EXCEPT !.globalCallback = "nil",
              !.stops.keypress = @ + 1,
              !.kcStopChan = "closed",
              !.panicked = @ \/ c.kcStopChan = "closed"]

\* FileChangeCollector.Stop(): close(fc.stopChan), which panics on a closed
\* channel, then fc.watcher.Close()
fileCollectorStop(c) ==
    IF c.fcStopChan = "closed"
    THEN [c EXCEPT !.stops.file = @ + 1, !.panicked = TRUE]
    ELSE [c EXCEPT !.stops.file = @ + 1, !.fcStopChan = "closed", !.watcher = "closed"]

\* main, case <-sigChan: log, keypressCollector.Stop(), which waits for
\* callbackMutex
MainSignal ==
    /\ coll.main = "loop"
    /\ coll.callbackMutex = "free"
    /\ coll' = [keypressStop(coll) EXCEPT !.main = "stopping"]
    /\ UNCHANGED collFrame

\* main: fileCollector.Stop(); log.Println("Shutdown complete"); return
MainStopFile ==
    /\ coll.main = "stopping"
    /\ coll' = [fileCollectorStop(coll) EXCEPT !.main = "deferred"]
    /\ UNCHANGED collFrame

\* the next deferred call of main runs; deferred calls go on running after a
\* panic, and the process ends by returning from main or by the panic
MainDeferred ==
    /\ coll.main = "deferred"
    /\ coll.defers # <<>>
    /\ LET call == Head(coll.defers)
           c == IF call = "fileCollector.Stop" THEN fileCollectorStop(coll) ELSE coll
           rest == Tail(coll.defers)
       IN  coll' = [c EXCEPT !.defers = rest,
                             !.ran = Append(@, call),
                             !.main = IF rest # <<>> THEN "deferred"
                                      ELSE IF c.panicked THEN "crashed" ELSE "returned"]
    /\ UNCHANGED collFrame

NextColl ==
    \/ Callback
    \/ CallbackSent
    \/ KeypressReceive
    \/ KeypressReturn
    \/ WatchEvent
    \/ WatchReturn
    \/ MainSignal
    \/ MainStopFile
    \/ MainDeferred

SpecColl == InitColl /\ [][NextColl]_vars

\* C26: in a shutdown started by the signal no collector's Stop is called
\* more than once, no closed stop channel is closed again, and the process
\* ends with main returning, each collector stopped once.
C26_EachCollectorStoppedOnce ==
    /\ coll.stops.keypress <= 1
    /\ coll.stops.file <= 1
    /\ ~coll.panicked
    /\ coll.main \in {"returned", "crashed"} =>
          /\ coll.main = "returned"
          /\ coll.stops.keypress = 1
          /\ coll.stops.file = 1

\* the keys of the keycodes placed on keyChan, in the order placed
EnqueuedKeys == [i \in DOMAIN coll.enqueued |-> keyCodeToString(coll.enqueued[i])]

\* C27: the keys passed to Save are, in order and once each, the keycodes
\* placed on keyChan; once the collector's goroutine has returned none is
\* left that was not passed to Save, the ones buffered at Stop included; and
\* no keycode is placed on keyChan after Stop.
C27_EveryKeycodeSaved ==
    /\ IsPrefix(coll.passed, EnqueuedKeys)
    /\ coll.kcLoop = "returned" => coll.passed = EnqueuedKeys
    /\ ~coll.lateEnqueue

\* the files of the model with a recognised code extension: a.go and a.sh
CodeFiles == { <<"a", ".", "g", "o">>, <<"a", ".", "s", "h">> }

\* an event that is a write, a create or a remove of a code file
WantedEvent(event) ==
    /\ event.Op \cap {"Write", "Create", "Remove"} # {}
    /\ event.Name \in CodeFiles

\* C28: the watch loop has called Save once for the event it received last
\* when that event is a write, create or remove of a file with a recognised
\* code extension, and not at all otherwise; it has made no more Save calls
\* than it received events; and it returns only once the collector is
\* stopped, not because a Save failed.
C28_SaveOncePerWantedEvent ==
    /\ coll.last.seen =>
          coll.last.saveCalls = IF WantedEvent(coll.last.event) THEN 1 ELSE 0
    /\ coll.saves <= coll.events
    /\ coll.failedSaves <= coll.saves
    /\ coll.fcLoop = "returned" => coll.fcStopChan = "closed" \/ coll.watcher = "closed"

\* after a Save that failed, the loop has received a remove of a.sh and
\* saved it
C28_Witness ==
    /\ coll.events = 2
    /\ coll.failedSaves = 1
    /\ coll.saves = 2
    /\ coll.last.event = [Name |-> <<"a", ".", "s", "h">>, Op |-> {"Remove"}]
    /\ coll.last.saveCalls = 1
    /\ ~coll.last.failed
    /\ coll.last.language = "shell"
    /\ coll.fcLoop = "select"

====
